---- MODULE Spec2Model ----
(***************************************************************************)
(* Reminder intelligence and scheduling core of habit-bot.                 *)
(*                                                                         *)
(* Absolute instants are whole minutes (UTC) since an arbitrary UTC        *)
(* midnight; a datetime.time value is a number of seconds since local      *)
(* midnight; NoTime stands for a NULL time column.                         *)
(***************************************************************************)
EXTENDS Integers, Sequences, FiniteSets, TLC

VARIABLES
    users,          \* users table: id -> profile row
    reminders,      \* reminders table: sequence of committed rows, index = id
    prompts,        \* prompts table (the Prompt model): sequence of rows, index = id
    responses,      \* responses table: sequence of rows, in query order
    now,            \* wall clock, UTC minutes
    autoflush,      \* SessionLocal's autoflush setting
    run,            \* scheduling runs: process -> local variables
    batch,          \* create_daily_reminders_for_all_users: local variables
    sweep,          \* schedule_pending_reminders runs: process -> local variables
    notifications,  \* send_reminder_notification.delay calls, in order
    history,        \* scheduling runs started so far: what each one read and decided
    fn              \* a pure-function application: inputs and result

vars ==
    <<users, prompts, reminders, responses, now, autoflush, run, batch, sweep, notifications,
      history, fn>>

----------------------------------------------------------------------------
(* Generic helpers *)

NoTime == -1

Range(s) == {s[i] : i \in DOMAIN s}

Min(a, b) == IF a <= b THEN a ELSE b

Max(a, b) == IF a >= b THEN a ELSE b

Take(s, n) == SubSeq(s, 1, Min(Len(s), n))

\* Python slice s[a:b] for 0 <= a, 0 <= b (0-based, end exclusive, clipped)
Slice(s, a, b) == SubSeq(s, a + 1, Min(b, Len(s)))

HMS(h, m, s) == h * 3600 + m * 60 + s

MinutesPerDay == 24 * 60

----------------------------------------------------------------------------
(* Category catalog *)

all_categories ==
    <<"sleep", "nutrition", "physical_activity", "substances", "mental_state",
      "stress_anxiety", "physical_symptoms", "social_interaction",
      "work_productivity", "environment">>

category_frequency_limits ==
    [c \in Range(all_categories) |->
        CASE c = "sleep" -> 24
          [] c = "mental_state" -> 4
          [] c = "stress_anxiety" -> 6
          [] c = "nutrition" -> 8
          [] c = "physical_activity" -> 8
          [] c = "substances" -> 12
          [] c = "physical_symptoms" -> 12
          [] c = "social_interaction" -> 12
          [] c = "work_productivity" -> 12
          [] c = "environment" -> 24]

DefaultFrequencyLimit == 12

\* self.category_frequency_limits.get(category, 12)
MinHours(c) ==
    IF c \in DOMAIN category_frequency_limits
    THEN category_frequency_limits[c]
    ELSE DefaultFrequencyLimit

----------------------------------------------------------------------------
(* _calculate_reminder_times *)

\* time.hour * 60 + time.minute: the seconds of the time value are dropped
TimeMinutes(t) == (t \div 3600) * 60 + ((t % 3600) \div 60)

\* the comparison of POST /reminders/generate used here: equal minutes wrap too
CalcEndMinutesWrapAtEqual(wake_minutes, end_minutes) ==
    IF end_minutes <= wake_minutes THEN end_minutes + 24 * 60 ELSE end_minutes

\* "if end_minutes < wake_minutes: end_minutes += 24 * 60" (strict comparison)
CalcEndMinutes(wake_minutes, end_minutes) ==
    IF end_minutes < wake_minutes THEN end_minutes + 24 * 60 ELSE end_minutes

\* the times of day returned, each as seconds since midnight (dt_time(hour, minute))
calculate_reminder_times(wake_time, end_time, num_reminders) ==
    LET wake_minutes == TimeMinutes(wake_time)
        end_minutes == CalcEndMinutes(wake_minutes, TimeMinutes(end_time))
        total_minutes == end_minutes - wake_minutes
        interval == total_minutes \div (num_reminders + 1)
    IN  [i \in 1..num_reminders |->
            LET minutes == (wake_minutes + interval * i) % (24 * 60)
                hours == minutes \div 60
                mins == minutes % 60
            IN  HMS(hours, mins, 0)]

----------------------------------------------------------------------------
(* ReminderIntelligenceService *)

\* ".order_by(Reminder.scheduled_time.desc())": the rows ids, latest first; rows
\* of equal scheduled_time come in id order
OrderByScheduledDesc(rems, ids) ==
    LET Before(i) ==
            {j \in ids : \/ rems[j].scheduled_time > rems[i].scheduled_time
                         \/ /\ rems[j].scheduled_time = rems[i].scheduled_time
                            /\ j < i}
    IN  [k \in 1..Cardinality(ids) |->
            CHOOSE i \in ids : Cardinality(Before(i)) = k - 1]

LastAskedLimit == 100

\* the rows of the query in get_last_asked_times
RecentReminders(user_id, rems) ==
    LET ids == {i \in DOMAIN rems : rems[i].user_id = user_id}
        ordered == OrderByScheduledDesc(rems, ids)
    IN  [k \in 1..Min(Len(ordered), LastAskedLimit) |-> rems[ordered[k]]]

\* the loop of get_last_asked_times: a row without categories is skipped, and the
\* first row seen for a category sets its time ("if category not in last_asked")
LastAskedLoop(rows) ==
    LET Seen(c) == {k \in DOMAIN rows : c \in Range(rows[k].categories)}
        First(c) == CHOOSE k \in Seen(c) : \A m \in Seen(c) : k <= m
    IN  [c \in UNION {Range(rows[k].categories) : k \in DOMAIN rows} |->
            rows[First(c)].scheduled_time]

get_last_asked_times(user_id, rems) ==
    LastAskedLoop(RecentReminders(user_id, rems))

IntervalElapsedStrict(now_utc, last_asked, min_hours) ==
    (now_utc - last_asked) > min_hours * 60

\* "hours_since_asked >= min_hours", in minutes
IntervalElapsed(now_utc, last_asked, min_hours) ==
    (now_utc - last_asked) >= min_hours * 60

\* the eligibility loop of generate_intelligent_reminder, before the fallback
EligibleLoop(last_asked_times, now_utc) ==
    SelectSeq(all_categories,
              LAMBDA c : \/ c \notin DOMAIN last_asked_times
                         \/ IntervalElapsed(now_utc, last_asked_times[c], MinHours(c)))

\* "if not eligible_categories: eligible_categories = ['mental_state']"
EligibleFallback(eligible) ==
    IF eligible = <<>> THEN <<"mental_state">> ELSE eligible

EligibleCategories(last_asked_times, now_utc) ==
    EligibleFallback(EligibleLoop(last_asked_times, now_utc))

\* the query without its deleted_at filter
RecentResponsesWithDeleted(user_id, resps, now_utc, lookback_hours) ==
    SelectSeq(resps,
              LAMBDA r : /\ r.user_id = user_id
                         /\ r.timestamp >= now_utc - lookback_hours * 60)

\* analyze_category_coverage: the rows of its query, in query order
RecentResponses(user_id, resps, now_utc, lookback_hours) ==
    SelectSeq(resps,
              LAMBDA r : /\ r.user_id = user_id
                         /\ r.timestamp >= now_utc - lookback_hours * 60
                         /\ ~r.deleted)

\* keys of category_counts, in insertion order
RECURSIVE CoveredLoop(_, _)
CoveredLoop(rows, covered) ==
    IF rows = <<>> THEN covered
    ELSE LET c == Head(rows).category
         IN  CoveredLoop(Tail(rows),
                         IF c # "" /\ c \notin Range(covered)
                         THEN Append(covered, c) ELSE covered)

LastResponse(rows, c) ==
    LET ts == {rows[i].timestamp : i \in {j \in DOMAIN rows : rows[j].category = c}}
    IN  CHOOSE t \in ts : \A u \in ts : t >= u

analyze_category_coverage(user_id, resps, now_utc, lookback_hours) ==
    LET recent_responses == RecentResponses(user_id, resps, now_utc, lookback_hours)
        covered_categories == CoveredLoop(recent_responses, <<>>)
    IN  [covered_categories |-> covered_categories,
         gap_categories |->
            SelectSeq(all_categories, LAMBDA c : c \notin Range(covered_categories)),
         category_counts |->
            [c \in Range(covered_categories) |->
                Cardinality({i \in DOMAIN recent_responses :
                                recent_responses[i].category = c})],
         last_response_by_category |->
            [c \in Range(covered_categories) |-> LastResponse(recent_responses, c)],
         total_responses |-> Len(recent_responses)]

\* sorted(covered_categories, key=last_response_by_category.get): stable, ascending
RECURSIVE SortedByKey(_, _)
SortedByKey(s, key) ==
    IF s = <<>> THEN <<>>
    ELSE LET i == CHOOSE k \in DOMAIN s :
                    /\ \A j \in DOMAIN s : key[s[k]] <= key[s[j]]
                    /\ \A j \in 1..(k - 1) : key[s[j]] > key[s[k]]
         IN  <<s[i]>> \o SortedByKey(SubSeq(s, 1, i - 1) \o SubSeq(s, i + 1, Len(s)), key)

MaxTargets == 3

\* "gap_categories = [c for c in analysis['gap_categories'] if c in eligible_categories]"
FilterEligible(cats, eligible_categories) ==
    SelectSeq(cats, LAMBDA c : c \in Range(eligible_categories))

\* the target selection without the eligibility filter on gaps and covered
TargetCategoriesUnfiltered(analysis, eligible_categories) ==
    LET gaps == Take(analysis.gap_categories, MaxTargets)
        withCovered ==
            IF Len(gaps) < MaxTargets /\ analysis.covered_categories # <<>>
            THEN gaps \o Take(SortedByKey(analysis.covered_categories,
                                          analysis.last_response_by_category),
                              MaxTargets - Len(gaps))
            ELSE gaps
    IN  IF withCovered = <<>> THEN Take(eligible_categories, MaxTargets) ELSE withCovered

\* the target selection of generate_intelligent_reminder
TargetCategories(analysis, eligible_categories) ==
    LET gap_categories == FilterEligible(analysis.gap_categories, eligible_categories)
        covered_categories == FilterEligible(analysis.covered_categories, eligible_categories)
        gaps == Take(gap_categories, MaxTargets)
        withCovered ==
            IF Len(gaps) < MaxTargets /\ covered_categories # <<>>
            THEN gaps \o Take(SortedByKey(covered_categories,
                                          analysis.last_response_by_category),
                              MaxTargets - Len(gaps))
            ELSE gaps
    IN  IF withCovered = <<>> THEN Take(eligible_categories, MaxTargets) ELSE withCovered

MaxPerCategory == 4

\* the canned question of the fallback: question 0 of the category
FallbackQuestions(category) == <<<<category, 0>>>>

\* the loop body without the cut "[:4]"
QuestionsForCategoryUncut(category, outcome) ==
    IF outcome.raises THEN FallbackQuestions(category)
    ELSE IF outcome.len = 0 \/ ~outcome.is_list THEN FallbackQuestions(category)
    ELSE [j \in 1..outcome.len |-> <<category, j>>]

\* One call of llm_service.generate_questions and what the loop body of
\* generate_questions_for_categories keeps of it.  An outcome is
\* [raises |-> the call raised, len |-> the length of what it returned,
\* is_list |-> what it returned is a list];
\* question j of the list returned for a category is <<category, j>>.
QuestionsForCategory(category, outcome) ==
    IF outcome.raises THEN FallbackQuestions(category)
    ELSE IF outcome.len = 0 \/ ~outcome.is_list THEN FallbackQuestions(category)
    ELSE [j \in 1..Min(outcome.len, MaxPerCategory) |-> <<category, j>>]

\* generate_questions_for_categories: category -> questions, per target category
generate_questions_for_categories(categories, outcomes) ==
    [c \in Range(categories) |->
        LET k == CHOOSE i \in DOMAIN categories : categories[i] = c
        IN  QuestionsForCategory(c, outcomes[k])]

\* "Flatten into single question dict": the texts in key order q1, q2, ...
RECURSIVE Flatten(_, _)
Flatten(categories, questions_by_category) ==
    IF categories = <<>> THEN <<>>
    ELSE questions_by_category[Head(categories)]
            \o Flatten(Tail(categories), questions_by_category)

\* generate_intelligent_reminder, given the outcome of each generation call
generate_intelligent_reminder(user_id, rems, resps, now_utc, outcomes) ==
    LET last_asked_times == get_last_asked_times(user_id, rems)
        eligible == EligibleLoop(last_asked_times, now_utc)
        eligible_categories == EligibleFallback(eligible)
        analysis == analyze_category_coverage(user_id, resps, now_utc, 24)
        target_categories == TargetCategories(analysis, eligible_categories)
        questions_by_category ==
            generate_questions_for_categories(target_categories, outcomes)
    IN  [questions |-> Flatten(target_categories, questions_by_category),
         categories |-> target_categories,
         eligible |-> eligible_categories,
         fallback |-> (eligible = <<>>),
         last_asked |-> last_asked_times]

----------------------------------------------------------------------------
(* Scheduling runs: create_scheduled_reminders_for_user (kind "task") and    *)
(* POST /reminders/generate (kind "api")                                     *)

TimezoneNames == {"UTC", "Asia/Kolkata", "America/Los_Angeles"}

\* pytz.timezone(name): the zone's offset from UTC in minutes; an unknown name raises
TimezoneOffset(name) ==
    CASE name = "UTC" -> 0
      [] name = "Asia/Kolkata" -> 330
      [] name = "America/Los_Angeles" -> -480

\* "pytz.timezone(user.timezone) if user.timezone else pytz.UTC"
TimezoneRaises(user) == user.timezone # "" /\ user.timezone \notin TimezoneNames

UserTz(user) == IF user.timezone = "" THEN 0 ELSE TimezoneOffset(user.timezone)

\* "user.wake_time or 08:00:00"
WakeTime(user) == IF user.wake_time = NoTime THEN HMS(8, 0, 0) ELSE user.wake_time

\* "user.screens_off_time or user.sleep_time or 21:00:00"
EndTime(user) ==
    IF user.screens_off_time # NoTime THEN user.screens_off_time
    ELSE IF user.sleep_time # NoTime THEN user.sleep_time
    ELSE HMS(21, 0, 0)

\* "num_reminders = min(4, max(2, len(reminder_data['questions']) // 3))"
NumReminders(total_questions) == Min(4, Max(2, total_questions \div 3))

\* task: "questions_per_reminder = max(1, len(questions) // num_reminders)"
TaskQuestionsPerReminder(total_questions, num_reminders) ==
    Max(1, total_questions \div num_reminders)

\* api: "questions_per_reminder = len(questions) // num_reminders"
ApiQuestionsPerReminder(total_questions, num_reminders) ==
    total_questions \div num_reminders

\* api: "if end_minutes <= wake_minutes: end_minutes += 24 * 60", then the slot
\* times computed in the loop of generate_reminders_for_user
api_reminder_times(wake_time, end_time, num_reminders) ==
    LET wake_minutes == TimeMinutes(wake_time)
        end0 == TimeMinutes(end_time)
        end_minutes == IF end0 <= wake_minutes THEN end0 + 24 * 60 ELSE end0
        total_minutes == end_minutes - wake_minutes
        interval == total_minutes \div (num_reminders + 1)
    IN  [i \in 1..num_reminders |->
            LET minutes == wake_minutes + interval * i
                hours == (minutes \div 60) % 24
                mins == minutes % 60
            IN  HMS(hours, mins, 0)]

\* "user_tz.localize(datetime.combine(today_local, reminder_time))" then
\* ".astimezone(pytz.UTC).replace(tzinfo=None)": the slot's UTC instant
ScheduledUtc(now_utc, tz, reminder_time) ==
    LET now_local == now_utc + tz
        today_local == now_local \div MinutesPerDay
    IN  today_local * MinutesPerDay + TimeMinutes(reminder_time) - tz

\* the comparison made strict: a slot at the very instant of 'now' is kept
SlotPassedStrict(scheduled_utc, now_utc) == scheduled_utc < now_utc

\* "if scheduled_local <= now_local: continue"
SlotPassed(scheduled_utc, now_utc) == scheduled_utc <= now_utc

\* the rows the "existing" query of a run can see: the committed rows, and the
\* run's own added rows when the session flushes before a query
VisibleRows(r) == IF autoflush THEN reminders \o r.pending ELSE reminders

\* "existing = db.query(Reminder).filter(user_id).filter(scheduled_time).first()"
Existing(rows, user_id, scheduled_utc) ==
    \E i \in DOMAIN rows :
        rows[i].user_id = user_id /\ rows[i].scheduled_time = scheduled_utc

\* the questions of slot k (1-based): keys question_keys[start_idx:end_idx]
ReminderQuestions(questions, k, num_reminders, questions_per_reminder) ==
    LET start_idx == (k - 1) * questions_per_reminder
        end_idx == IF k = num_reminders THEN Len(questions)
                   ELSE start_idx + questions_per_reminder
        keys == IF start_idx < Len(questions)
                THEN (start_idx + 1)..Min(end_idx, Len(questions)) ELSE {}
    IN  [j \in 1..Cardinality(keys) |->
            [key |-> start_idx + j, text |-> questions[start_idx + j]]]

\* the guard left out: a slot with no questions is persisted too
SkipEmptyNever(reminder_questions) == FALSE

\* "if not reminder_questions: continue"
SkipEmpty(reminder_questions) == reminder_questions = <<>>

\* Reminder(user_id, scheduled_time, questions, categories, status=SCHEDULED);
\* origin is the serial number of the run that created the row (0: POST /reminders)
NewReminder(user_id, scheduled_utc, reminder_questions, categories, origin) ==
    [user_id |-> user_id,
     scheduled_time |-> scheduled_utc,
     sent_time |-> NoTime,
     questions |-> reminder_questions,
     status |-> "scheduled",
     categories |-> categories,
     origin |-> origin]

Procs == {1, 2}

BatchProc == 0

EmptyData == [questions |-> <<>>, categories |-> <<>>]

IdleRun ==
    [pc |-> "idle", kind |-> "none", serial |-> 0, user_id |-> 0, now_utc |-> 0,
     tz |-> 0, data |-> EmptyData, num_reminders |-> 0, times |-> <<>>,
     questions_per_reminder |-> 0, k |-> 0, scheduled |-> 0, pending |-> <<>>,
     result |-> "none"]

\* a run that has returned or raised keeps only what its caller sees
Ended(r, pc, result) ==
    [IdleRun EXCEPT !.pc = pc, !.kind = r.kind, !.serial = r.serial,
                    !.user_id = r.user_id, !.now_utc = r.now_utc,
                    !.scheduled = r.scheduled, !.result = result]

\* the loop moves to the next slot, or ends: the task returns, the API commits
NextSlot(r) ==
    IF r.k < r.num_reminders
    THEN [r EXCEPT !.pc = "check", !.k = r.k + 1]
    ELSE Ended(r, "done", "success")

CommitAtEnd(r, rems) ==
    IF r.k < r.num_reminders THEN rems ELSE rems \o r.pending

\* the lookup's miss going unnoticed: the run uses the missing user and raises
UserNotFoundRaises(r) == Ended(r, "raised", "raised")

\* "if not user: return {success: False, error: 'User not found'}" (api: 404)
UserNotFound(r) == Ended(r, "done", "not_found")

MaxRuns == 2

\* the entry of a run: user lookup, timezone, generate_intelligent_reminder,
\* slot times and questions per slot
RunStart(p, kind, user_id, outcomes) ==
    /\ run[p].pc \in {"idle", "done", "raised"}
    /\ LET serial == Len(history) + 1
           base == [IdleRun EXCEPT !.kind = kind, !.serial = serial,
                                   !.user_id = user_id, !.now_utc = now]
       IN  IF user_id \notin DOMAIN users
           THEN /\ run' = [run EXCEPT ![p] = UserNotFound(base)]
                /\ history' = Append(history,
                        [user_id |-> user_id, kind |-> kind, now_utc |-> now,
                         first_id |-> Len(reminders) + 1, fallback |-> FALSE,
                         categories |-> <<>>, total_questions |-> 0])
           ELSE IF TimezoneRaises(users[user_id])
           THEN /\ run' = [run EXCEPT ![p] = Ended(base, "raised", "raised")]
                /\ history' = Append(history,
                        [user_id |-> user_id, kind |-> kind, now_utc |-> now,
                         first_id |-> Len(reminders) + 1, fallback |-> FALSE,
                         categories |-> <<>>, total_questions |-> 0])
           ELSE LET user == users[user_id]
                    reminder_data ==
                        generate_intelligent_reminder(user_id, reminders, responses,
                                                      now, outcomes)
                    total == Len(reminder_data.questions)
                    num_reminders == NumReminders(total)
                IN  /\ run' = [run EXCEPT ![p] =
                            [base EXCEPT
                                !.pc = "check",
                                !.tz = UserTz(user),
                                !.data = [questions |-> reminder_data.questions,
                                          categories |-> reminder_data.categories],
                                !.num_reminders = num_reminders,
                                !.times =
                                    IF kind = "task"
                                    THEN calculate_reminder_times(
                                            WakeTime(user), EndTime(user), num_reminders)
                                    ELSE api_reminder_times(
                                            WakeTime(user), EndTime(user), num_reminders),
                                !.questions_per_reminder =
                                    IF kind = "task"
                                    THEN TaskQuestionsPerReminder(total, num_reminders)
                                    ELSE ApiQuestionsPerReminder(total, num_reminders),
                                !.k = 1]]
                    /\ history' = Append(history,
                            [user_id |-> user_id, kind |-> kind, now_utc |-> now,
                             first_id |-> Len(reminders) + 1,
                             fallback |-> reminder_data.fallback,
                             categories |-> reminder_data.categories,
                             total_questions |-> total])
    /\ UNCHANGED <<users, prompts, reminders, responses, now, autoflush, batch, sweep,
                   notifications, fn>>

\* one slot of the loop up to the "existing" query
RunCheck(p) ==
    /\ run[p].pc = "check"
    /\ LET r == run[p]
           scheduled_utc == ScheduledUtc(r.now_utc, r.tz, r.times[r.k])
       IN  IF \/ SlotPassed(scheduled_utc, r.now_utc)
              \/ Existing(VisibleRows(r), r.user_id, scheduled_utc)
           THEN /\ run' = [run EXCEPT ![p] = NextSlot(r)]
                /\ reminders' = CommitAtEnd(r, reminders)
           ELSE /\ run' = [run EXCEPT ![p].pc = "insert"]
                /\ UNCHANGED reminders
    /\ UNCHANGED <<users, prompts, responses, now, autoflush, batch, sweep, notifications,
                   history, fn>>

\* the rest of the slot: its questions, and db.add (the task commits at once)
RunInsert(p) ==
    /\ run[p].pc = "insert"
    /\ LET r == run[p]
           scheduled_utc == ScheduledUtc(r.now_utc, r.tz, r.times[r.k])
           reminder_questions ==
                ReminderQuestions(r.data.questions, r.k, r.num_reminders,
                                  r.questions_per_reminder)
           reminder == NewReminder(r.user_id, scheduled_utc, reminder_questions,
                                   r.data.categories, r.serial)
       IN  IF SkipEmpty(reminder_questions)
           THEN /\ run' = [run EXCEPT ![p] = NextSlot(r)]
                /\ reminders' = CommitAtEnd(r, reminders)
           ELSE IF r.kind = "task"
           THEN /\ run' = [run EXCEPT ![p] =
                                NextSlot([r EXCEPT !.scheduled = r.scheduled + 1])]
                /\ reminders' = Append(reminders, reminder)
           ELSE LET added == [r EXCEPT !.scheduled = r.scheduled + 1,
                                       !.pending = Append(r.pending, reminder)]
                IN  /\ run' = [run EXCEPT ![p] = NextSlot(added)]
                    /\ reminders' = CommitAtEnd(added, reminders)
    /\ UNCHANGED <<users, prompts, responses, now, autoflush, batch, sweep, notifications,
                   history, fn>>

----------------------------------------------------------------------------
(* Inputs *)

Profile(tz, wake, sleep, screens_off) ==
    [timezone |-> tz, wake_time |-> wake, sleep_time |-> sleep,
     screens_off_time |-> screens_off]

\* no preferences set: UTC, 08:00 to 21:00
PDefault == Profile("", NoTime, NoTime, NoTime)

\* an overnight window, east of UTC
PLate == Profile("Asia/Kolkata", HMS(10, 0, 0), NoTime, HMS(2, 0, 0))

\* west of UTC, the window ends at sleep_time
PWest == Profile("America/Los_Angeles", HMS(8, 0, 0), HMS(20, 0, 0), NoTime)

\* a window shorter than the number of slots, wake time not on a whole minute
PTiny == Profile("UTC", HMS(8, 0, 30), NoTime, HMS(8, 2, 0))

\* a timezone name pytz does not know
PUnknownTz == Profile("Mars/Phobos", HMS(8, 0, 0), NoTime, HMS(20, 0, 0))

Listed(n) == [raises |-> FALSE, len |-> n, is_list |-> TRUE]

\* a result that is no list: None (length 0), or a string or dict of length n
NotAList(n) == [raises |-> FALSE, len |-> n, is_list |-> FALSE]

Raised == [raises |-> TRUE, len |-> 0, is_list |-> FALSE]

\* the outcomes of the generation calls of one run, in call order
OutcomeSeqs ==
    {<<Listed(1), Listed(1), Listed(1)>>,
     <<Listed(3), Listed(3), Listed(3)>>,
     <<Listed(4), Listed(4), Listed(4)>>,
     <<Raised, Raised, Raised>>,
     <<Listed(5), Raised, Listed(2)>>,
     <<Listed(0), Listed(2), Listed(1)>>}

Kinds == {"task", "api"}

\* 00:00 and 13:00 UTC of day 1, 03:00 UTC of day 2
NowSamples == {24 * 60, 37 * 60, 51 * 60}

Response(user_id, category, timestamp, deleted) ==
    [user_id |-> user_id, category |-> category, timestamp |-> timestamp,
     deleted |-> deleted]

\* response histories: none; recent answers (one deleted, one without category,
\* one of another user, one older than the lookback window)
ResponseTables ==
    {<<>>,
     <<Response(1, "nutrition", 23 * 60, FALSE), Response(1, "sleep", 22 * 60, FALSE),
       Response(1, "substances", 23 * 60, TRUE), Response(1, "", 23 * 60, FALSE),
       Response(2, "mental_state", 23 * 60, FALSE),
       Response(1, "physical_activity", -2 * 60, FALSE)>>}

InitCommon ==
    /\ batch = [pc |-> "idle", users |-> <<>>, idx |-> 0, total_scheduled |-> 0,
                visited |-> {}]
    /\ sweep = [s \in {1, 2} |-> [pc |-> "idle", ready |-> <<>>, sent |-> 0]]
    /\ notifications = <<>>
    /\ prompts = <<>>
    /\ history = <<>>
    /\ fn = [op |-> "none"]

----------------------------------------------------------------------------
(* POST /reminders and the clock *)

MaxPosts == 2

Question(category, j) == [key |-> j, text |-> <<category, j>>]

\* bodies of POST /reminders (categories None is stored like an empty list):
\* asked a day ago; every category asked an hour ago; nothing asked, tomorrow
PostSamples ==
    {[scheduled_time |-> 0, questions |-> <<Question("custom", 1)>>,
      categories |-> <<"sleep", "hobby">>],
     [scheduled_time |-> 23 * 60, questions |-> <<Question("custom", 1)>>,
      categories |-> all_categories],
     [scheduled_time |-> 40 * 60, questions |-> <<>>, categories |-> <<>>]}

\* create_reminder: 404 for an unknown user, else the row is inserted as given
create_reminder(user_id, body) ==
    /\ Cardinality({i \in DOMAIN reminders : reminders[i].origin = 0}) < MaxPosts
    /\ IF user_id \notin DOMAIN users
       THEN UNCHANGED reminders
       ELSE reminders' = Append(reminders,
                NewReminder(user_id, body.scheduled_time, body.questions,
                            body.categories, 0))
    /\ UNCHANGED <<users, prompts, responses, now, autoflush, run, batch, sweep, notifications,
                   history, fn>>

\* Time passes.  The samples are hours apart and a run lasts seconds, so the
\* clock moves to its next sample while no run is in progress.
Tick ==
    /\ \A p \in DOMAIN run : run[p].pc \notin {"check", "insert"}
    /\ \E t \in NowSamples :
            /\ t > now
            /\ \A u \in NowSamples : u > now => t <= u
            /\ now' = t
    /\ UNCHANGED <<users, prompts, reminders, responses, autoflush, run, batch, sweep,
                   notifications, history, fn>>

----------------------------------------------------------------------------
(* Spec: two callers each run one scheduling cycle, overlapping or not, for  *)
(* users with or without posted reminders and response history              *)

\* the outcomes of the generation calls of one run: every call fails; lists of
\* three; lists of four
FewOutcomeSeqs ==
    {<<Raised, Raised, Raised>>,
     <<Listed(3), Listed(3), Listed(3)>>,
     <<Listed(4), Listed(4), Listed(4)>>}

\* reminders tables left by POST /reminders: none, or one posted reminder
PostedTables ==
    {<<>>} \cup
    {<<NewReminder(1, body.scheduled_time, body.questions, body.categories, 0)>> :
        body \in PostSamples}

Init ==
    /\ InitCommon
    /\ reminders \in PostedTables
    /\ users \in {<<PDefault>>, <<PLate>>}
    /\ responses \in ResponseTables
    /\ now = 24 * 60
    /\ autoflush \in BOOLEAN
    /\ run = [p \in Procs |-> IdleRun]

\* the callers are interchangeable: caller 2 starts after caller 1
Next ==
    \/ \E p \in Procs, kind \in Kinds, outcomes \in FewOutcomeSeqs :
            /\ run[p].pc = "idle"
            /\ p = 1 \/ run[1].pc # "idle"
            /\ RunStart(p, kind, 1, outcomes)
    \/ \E p \in Procs : RunCheck(p)
    \/ \E p \in Procs : RunInsert(p)
    \/ Tick

Spec == Init /\ [][Next]_vars

----------------------------------------------------------------------------
(* SpecSeq: one caller runs scheduling cycles for one user, one after the    *)
(* other, while the clock stands still and nothing else happens             *)

InitSeq ==
    /\ InitCommon
    /\ reminders = <<>>
    /\ users \in {<<PDefault>>, <<PLate>>, <<PWest>>, <<PTiny>>, <<PUnknownTz>>}
    /\ responses \in ResponseTables
    /\ now \in NowSamples
    /\ autoflush \in BOOLEAN
    /\ run = [p \in {1} |-> IdleRun]

NextSeq ==
    \/ \E kind \in Kinds, user_id \in {1, 2}, outcomes \in OutcomeSeqs :
            Len(history) < MaxRuns /\ RunStart(1, kind, user_id, outcomes)
    \/ RunCheck(1)
    \/ RunInsert(1)

SpecSeq == InitSeq /\ [][NextSeq]_vars

----------------------------------------------------------------------------
(* create_daily_reminders_for_all_users *)

IdleBatch ==
    [pc |-> "idle", users |-> <<>>, idx |-> 0, total_scheduled |-> 0, visited |-> {}]

\* "users = db.query(User).all()", in id order
BatchStart ==
    /\ batch.pc = "idle"
    /\ batch' = [IdleBatch EXCEPT
                    !.pc = IF Len(users) = 0 THEN "done" ELSE "loop",
                    !.users = [i \in 1..Len(users) |-> i],
                    !.idx = 1]
    /\ UNCHANGED <<users, prompts, reminders, responses, now, autoflush, run, sweep,
                   notifications, history, fn>>

\* "result = create_scheduled_reminders_for_user(user.id)": a plain call, made by
\* the driver itself
BatchCall(outcomes) ==
    /\ batch.pc = "loop"
    /\ run[BatchProc].pc = "idle"
    /\ RunStart(BatchProc, "task", batch.users[batch.idx], outcomes)

\* The call ends.  An exception leaves the loop and the task (there is no except
\* clause); a result is added up and the loop goes on.  visited is the set of
\* users whose call returned.
BatchReturn ==
    /\ batch.pc = "loop"
    /\ run[BatchProc].pc \in {"done", "raised"}
    /\ LET r == run[BatchProc]
       IN  IF r.pc = "raised"
           THEN batch' = [batch EXCEPT !.pc = "raised"]
           ELSE batch' = [batch EXCEPT
                    !.pc = IF batch.idx < Len(batch.users) THEN "loop" ELSE "done",
                    !.idx = batch.idx + 1,
                    !.total_scheduled =
                        IF r.result = "success"
                        THEN batch.total_scheduled + r.scheduled
                        ELSE batch.total_scheduled,
                    !.visited = batch.visited \cup {r.user_id}]
    /\ run' = [run EXCEPT ![BatchProc] = IdleRun]
    /\ UNCHANGED <<users, prompts, reminders, responses, now, autoflush, sweep, notifications,
                   history, fn>>

----------------------------------------------------------------------------
(* SpecBatch: the hourly driver goes through the users table *)

InitBatch ==
    /\ InitCommon
    /\ reminders = <<>>
    /\ users \in {<<PDefault, PLate>>, <<PDefault, PUnknownTz, PLate>>,
                  <<PUnknownTz, PWest>>, <<PWest, PTiny, PUnknownTz>>}
    /\ responses \in ResponseTables
    /\ now \in NowSamples
    /\ autoflush = TRUE
    /\ run = [p \in {BatchProc} |-> IdleRun]

NextBatch ==
    \/ BatchStart
    \/ \E outcomes \in FewOutcomeSeqs : BatchCall(outcomes)
    \/ RunCheck(BatchProc)
    \/ RunInsert(BatchProc)
    \/ BatchReturn

SpecBatch == InitBatch /\ [][NextBatch]_vars

----------------------------------------------------------------------------
(* Reminder lifecycle: the dispatch sweep, acknowledge, PATCH *)

Statuses == {"scheduled", "sent", "acknowledged", "completed", "missed"}

SweepLimit == 50

SweepProcs == {1, 2}

IdleSweep == [pc |-> "idle", ready |-> <<>>, sent |-> 0]

\* the rows of a table in id order: the order in which the query returns them
RowIds(rems) == [i \in 1..Len(rems) |-> i]

\* the limit applied to the table before the filters
ReadyRemindersHeadOfTable(rems, now_utc) ==
    SelectSeq(Take(RowIds(rems), SweepLimit),
              LAMBDA i : /\ rems[i].status = "scheduled"
                         /\ rems[i].scheduled_time <= now_utc)

\* the query without its status filter
ReadyRemindersAnyStatus(rems, now_utc) ==
    Take(SelectSeq(RowIds(rems), LAMBDA i : rems[i].scheduled_time <= now_utc),
         SweepLimit)

\* the "ready_reminders" query of schedule_pending_reminders
ReadyReminders(rems, now_utc) ==
    Take(SelectSeq(RowIds(rems),
                   LAMBDA i : /\ rems[i].status = "scheduled"
                              /\ rems[i].scheduled_time <= now_utc),
         SweepLimit)

MaxNotifications == 2

\* schedule_pending_reminders up to its query; with nothing ready it returns
SweepQuery(s) ==
    /\ sweep[s].pc \in {"idle", "done"}
    /\ LET ready == ReadyReminders(reminders, now)
       IN  sweep' = [sweep EXCEPT ![s] =
                [pc |-> IF ready = <<>> THEN "done" ELSE "loop",
                 ready |-> ready, sent |-> 0]]
    /\ UNCHANGED <<users, prompts, reminders, responses, now, autoflush, run, batch,
                   notifications, history, fn>>

\* a run of the sweep, started while few notifications are queued
SweepSelect(s) ==
    /\ Len(notifications) < MaxNotifications
    /\ SweepQuery(s)

\* One turn of the loop.  "reminder.status = SENT" is written whatever the row
\* holds by now; "reminder.sent_at = now" names no column of the table, so
\* nothing of it is stored; then commit and send_reminder_notification.delay.
SweepPromote(s) ==
    /\ sweep[s].pc = "loop"
    /\ LET id == Head(sweep[s].ready)
           rest == Tail(sweep[s].ready)
       IN  /\ reminders' = [reminders EXCEPT ![id].status = "sent"]
           /\ notifications' = Append(notifications, id)
           /\ sweep' = [sweep EXCEPT ![s] =
                    [pc |-> IF rest = <<>> THEN "done" ELSE "loop",
                     ready |-> rest, sent |-> sweep[s].sent + 1]]
    /\ UNCHANGED <<users, prompts, responses, now, autoflush, run, batch, history, fn>>

\* acknowledge written as a receipt: the time of the call is stored with the status
acknowledge_reminder_stamping(reminder_id) ==
    /\ IF reminder_id \notin DOMAIN reminders
       THEN UNCHANGED reminders
       ELSE reminders' = [reminders EXCEPT ![reminder_id].status = "acknowledged",
                                           ![reminder_id].sent_time = now]
    /\ UNCHANGED <<users, prompts, responses, now, autoflush, run, batch, sweep, notifications,
                   history, fn>>

\* acknowledge_reminder: 404 for an unknown id, else status = ACKNOWLEDGED
acknowledge_reminder(reminder_id) ==
    /\ IF reminder_id \notin DOMAIN reminders
       THEN UNCHANGED reminders
       ELSE reminders' = [reminders EXCEPT ![reminder_id].status = "acknowledged"]
    /\ UNCHANGED <<users, prompts, responses, now, autoflush, run, batch, sweep, notifications,
                   history, fn>>

\* bodies of PATCH /reminders/{id}: the fields set, and their values
PatchSamples ==
    {[fields |-> {"status"}, status |-> st, sent_time |-> NoTime] : st \in Statuses}
    \cup {[fields |-> {"sent_time"}, status |-> "", sent_time |-> 25 * 60]}
    \cup {[fields |-> {"status", "sent_time"}, status |-> "sent", sent_time |-> 25 * 60]}

\* update_reminder over a body whose time field is taken for the schedule as well
update_reminder_rescheduling(reminder_id, reminder_update) ==
    /\ IF reminder_id \notin DOMAIN reminders
       THEN UNCHANGED reminders
       ELSE reminders' = [reminders EXCEPT
                ![reminder_id].status =
                    IF "status" \in reminder_update.fields
                    THEN reminder_update.status ELSE @,
                ![reminder_id].sent_time =
                    IF "sent_time" \in reminder_update.fields
                    THEN reminder_update.sent_time ELSE @,
                ![reminder_id].scheduled_time =
                    IF "sent_time" \in reminder_update.fields
                    THEN reminder_update.sent_time ELSE @]
    /\ UNCHANGED <<users, prompts, responses, now, autoflush, run, batch, sweep, notifications,
                   history, fn>>

\* update_reminder: 404 for an unknown id, else setattr for every field set
update_reminder(reminder_id, reminder_update) ==
    /\ IF reminder_id \notin DOMAIN reminders
       THEN UNCHANGED reminders
       ELSE reminders' = [reminders EXCEPT
                ![reminder_id].status =
                    IF "status" \in reminder_update.fields
                    THEN reminder_update.status ELSE @,
                ![reminder_id].sent_time =
                    IF "sent_time" \in reminder_update.fields
                    THEN reminder_update.sent_time ELSE @]
    /\ UNCHANGED <<users, prompts, responses, now, autoflush, run, batch, sweep, notifications,
                   history, fn>>

----------------------------------------------------------------------------
(* SpecLife: posted reminders go through their lifecycle *)

ReminderIds == 1..(MaxPosts + 1)

InitLife ==
    /\ InitCommon
    /\ reminders = <<>>
    /\ users = <<PDefault>>
    /\ responses = <<>>
    /\ now = 37 * 60
    /\ autoflush = TRUE
    /\ run = [p \in Procs |-> IdleRun]

NextLife ==
    \/ \E body \in PostSamples : create_reminder(1, body)
    \/ \E s \in SweepProcs : (s = 1 \/ sweep[1].pc = "loop") /\ SweepSelect(s)
    \/ \E s \in SweepProcs : SweepPromote(s)
    \/ \E id \in ReminderIds : acknowledge_reminder(id)
    \/ \E id \in ReminderIds, body \in PatchSamples : update_reminder(id, body)
    \/ Tick

SpecLife == InitLife /\ [][NextLife]_vars

----------------------------------------------------------------------------
(* POST /responses *)

MaxSubmissions == 2

\* bodies of POST /responses: the client answers the check-in with id 1 or 2
ResponseSamples ==
    {[prompt_id |-> i, user_id |-> 1, category |-> "sleep"] : i \in {1, 2}}

\* create_response: the row is looked up through the Prompt model (table
\* "prompts"); 404 when there is none, else the response is added and that
\* prompts row is marked completed.  No row of the reminders table is read or
\* written.
create_response(response) ==
    /\ Len(responses) < MaxSubmissions
    /\ IF response.prompt_id \notin DOMAIN prompts
       THEN UNCHANGED <<prompts, responses>>
       ELSE /\ responses' = Append(responses,
                    [prompt_id |-> response.prompt_id]
                        @@ Response(response.user_id, response.category, now, FALSE))
            /\ prompts' = [prompts EXCEPT ![response.prompt_id].status = "completed"]
    /\ UNCHANGED <<users, reminders, now, autoflush, run, batch, sweep, notifications,
                   history, fn>>

----------------------------------------------------------------------------
(* SpecRespond: check-ins are posted, dispatched, opened and answered *)

\* a row of the prompts table written before the table was renamed
LegacyPrompt == NewReminder(1, 0, <<Question("custom", 1)>>, <<"sleep">>, 0)

InitRespond ==
    /\ batch = [pc |-> "idle", users |-> <<>>, idx |-> 0, total_scheduled |-> 0,
                visited |-> {}]
    /\ sweep = [s \in {1, 2} |-> IdleSweep]
    /\ notifications = <<>>
    /\ history = <<>>
    /\ fn = [op |-> "none"]
    /\ prompts \in {<<>>, <<LegacyPrompt>>}
    /\ reminders = <<>>
    /\ users = <<PDefault>>
    /\ responses = <<>>
    /\ now = 37 * 60
    /\ autoflush = TRUE
    /\ run = [p \in Procs |-> IdleRun]

NextRespond ==
    \/ \E body \in PostSamples : create_reminder(1, body)
    \/ SweepSelect(1)
    \/ SweepPromote(1)
    \/ \E id \in ReminderIds : acknowledge_reminder(id)
    \/ \E response \in ResponseSamples : create_response(response)
    \/ Tick

SpecRespond == InitRespond /\ [][NextRespond]_vars

----------------------------------------------------------------------------
(* SpecWrite: every writer of the reminders table, one caller of each *)

InitWrite ==
    /\ InitCommon
    /\ reminders = <<>>
    /\ users = <<PDefault>>
    /\ responses = <<>>
    /\ now = 24 * 60
    /\ autoflush = TRUE
    /\ run = [p \in Procs |-> IdleRun]

\* PATCH is aimed at the first reminder and one scheduling run is made; the
\* clock stands at 00:00 UTC, when the posted reminders of the past are due and
\* the slots of the day are to come
NextWrite ==
    \/ \E body \in PostSamples : create_reminder(1, body)
    \/ SweepSelect(1)
    \/ SweepPromote(1)
    \/ \E id \in ReminderIds : acknowledge_reminder(id)
    \/ \E body \in PatchSamples : update_reminder(1, body)
    \/ \E kind \in Kinds :
            history = <<>>
            /\ RunStart(1, kind, 1, <<Listed(3), Listed(3), Listed(3)>>)
    \/ RunCheck(1)
    \/ RunInsert(1)

SpecWrite == InitWrite /\ [][NextWrite]_vars

----------------------------------------------------------------------------
(* SpecSweep: dispatch sweeps over a backlog larger than one batch *)

Backlog == 51

StoredReminder(scheduled_time, status) ==
    [NewReminder(1, scheduled_time, <<Question("custom", 1)>>, <<"sleep">>, 0)
        EXCEPT !.status = status]

\* an acknowledged and a completed reminder of the past, one scheduled for day
\* 3, then Backlog scheduled reminders of the past
BacklogTable ==
    [i \in 1..(Backlog + 3) |->
        CASE i = 1 -> StoredReminder(0, "acknowledged")
          [] i = 2 -> StoredReminder(60 * 60, "scheduled")
          [] i = 3 -> StoredReminder(23 * 60, "completed")
          [] OTHER -> StoredReminder(23 * 60, "scheduled")]

\* two reminders of the past and one that falls due at the last clock sample
ShortTable ==
    <<StoredReminder(0, "scheduled"), StoredReminder(23 * 60, "scheduled"),
      StoredReminder(40 * 60, "scheduled")>>

InitSweep ==
    /\ InitCommon
    /\ reminders \in {BacklogTable, ShortTable}
    /\ users = <<PDefault>>
    /\ responses = <<>>
    /\ now = 37 * 60
    /\ autoflush = TRUE
    /\ run = [p \in Procs |-> IdleRun]

NextSweep ==
    \/ SweepSelect(1)
    \/ SweepPromote(1)
    \/ \E id \in ReminderIds : acknowledge_reminder(id)
    \/ Tick

SpecSweep == InitSweep /\ [][NextSweep]_vars

----------------------------------------------------------------------------
(* SpecFair: the periodic sweep keeps running and every started run goes on *)

InitFair == InitSweep

NextFair ==
    \/ SweepQuery(1)
    \/ SweepPromote(1)
    \/ \E id \in ReminderIds : acknowledge_reminder(id)
    \/ Tick

\* the beat entry starts a run every minute, and a started run takes its turns
SpecFair ==
    /\ InitFair
    /\ [][NextFair]_vars
    /\ WF_vars(SweepQuery(1))
    /\ WF_vars(SweepPromote(1))

----------------------------------------------------------------------------
(* SpecDispatch: sweep runs of two workers, one after the other or overlapping *)

InitDispatch ==
    /\ InitCommon
    /\ reminders = ShortTable
    /\ users = <<PDefault>>
    /\ responses = <<>>
    /\ now \in NowSamples
    /\ autoflush = TRUE
    /\ run = [p \in Procs |-> IdleRun]

NextDispatch ==
    \/ \E s \in SweepProcs : SweepSelect(s)
    \/ \E s \in SweepProcs : SweepPromote(s)
    \/ Tick

SpecDispatch == InitDispatch /\ [][NextDispatch]_vars

----------------------------------------------------------------------------
(* SpecTimes: _calculate_reminder_times on a grid of wake and end times *)

MaxNumReminders == 4

TimeSamples ==
    {HMS(h, ms[1], ms[2]) :
        h \in {0, 2, 8, 10, 20, 23},
        ms \in {<<0, 0>>, <<0, 30>>, <<2, 0>>, <<59, 0>>}}

InitTimes ==
    /\ InitCommon
    /\ reminders = <<>>
    /\ users = <<PDefault>>
    /\ responses = <<>>
    /\ now = 24 * 60
    /\ autoflush = TRUE
    /\ run = [p \in Procs |-> IdleRun]

CallCalculateReminderTimes(wake_time, end_time, num_reminders) ==
    /\ fn.op = "none"
    /\ fn' = [op |-> "calculate_reminder_times",
              wake_time |-> wake_time,
              end_time |-> end_time,
              num_reminders |-> num_reminders,
              result |-> calculate_reminder_times(wake_time, end_time, num_reminders)]
    /\ UNCHANGED <<users, prompts, reminders, responses, now, autoflush, run, batch, sweep,
                   notifications, history>>

NextTimes ==
    \E wake_time \in TimeSamples, end_time \in TimeSamples,
       num_reminders \in 1..MaxNumReminders :
        CallCalculateReminderTimes(wake_time, end_time, num_reminders)

SpecTimes == InitTimes /\ [][NextTimes]_vars

----------------------------------------------------------------------------
(* SpecElig: the eligibility filter of generate_intelligent_reminder on small
   reminder tables *)

MaxRows == 2

EligTimes == {0, 20 * 60, 23 * 60 + 55, 30 * 60}

EligCategories ==
    {<<>>, all_categories, <<"sleep", "mental_state">>, <<"nutrition", "hobby">>}

EligRows ==
    {NewReminder(user_id, t, <<>>, cats, 0) :
        user_id \in {1, 2}, t \in EligTimes, cats \in EligCategories}

\* one row older than a hundred others of the same user
LongTable ==
    [i \in 1..(LastAskedLimit + 1) |->
        IF i = 1
        THEN NewReminder(1, 20 * 60, <<>>, <<"sleep", "mental_state">>, 0)
        ELSE NewReminder(1, 23 * 60 + 55, <<>>, <<"nutrition", "hobby">>, 0)]

EligTables == UNION {[1..n -> EligRows] : n \in 0..MaxRows} \cup {LongTable}

InitElig ==
    /\ InitCommon
    /\ reminders \in EligTables
    /\ users = <<PDefault>>
    /\ responses = <<>>
    /\ now \in {24 * 60, 28 * 60}
    /\ autoflush = TRUE
    /\ run = [p \in Procs |-> IdleRun]

\* lines 239-265 of generate_intelligent_reminder, for user_id at the clock's now
CallEligible(user_id) ==
    /\ fn.op = "none"
    /\ LET last_asked_times == get_last_asked_times(user_id, reminders)
       IN  fn' = [op |-> "eligible",
                  user_id |-> user_id,
                  last_asked |-> last_asked_times,
                  unfiltered |-> EligibleLoop(last_asked_times, now),
                  result |-> EligibleCategories(last_asked_times, now)]
    /\ UNCHANGED <<users, prompts, reminders, responses, now, autoflush, run, batch, sweep,
                   notifications, history>>

NextElig == \E user_id \in {1} : CallEligible(user_id)

SpecElig == InitElig /\ [][NextElig]_vars

----------------------------------------------------------------------------
(* SpecCover: analyze_category_coverage on small response tables *)

MaxResponses == 2

LookbackHours == 24

\* older than the window, exactly at its start, an hour ago (now is 24:00)
CoverTimes == {-60, 0, 23 * 60}

CoverRows ==
    {Response(user_id, category, timestamp, deleted) :
        user_id \in {1, 2},
        category \in {"", "sleep", "nutrition", "hobby"},
        timestamp \in CoverTimes,
        deleted \in BOOLEAN}

CoverTables == UNION {[1..n -> CoverRows] : n \in 0..MaxResponses}

InitCover ==
    /\ InitCommon
    /\ reminders = <<>>
    /\ users = <<PDefault>>
    /\ responses \in CoverTables
    /\ now = 24 * 60
    /\ autoflush = TRUE
    /\ run = [p \in Procs |-> IdleRun]

\* "analysis = self.analyze_category_coverage(user_id, db, lookback_hours=24)"
CallAnalyze(user_id) ==
    /\ fn.op = "none"
    /\ fn' = [op |-> "analyze_category_coverage",
              user_id |-> user_id,
              result |-> analyze_category_coverage(user_id, responses, now,
                                                   LookbackHours)]
    /\ UNCHANGED <<users, prompts, reminders, responses, now, autoflush, run, batch, sweep,
                   notifications, history>>

NextCover == \E user_id \in {1} : CallAnalyze(user_id)

SpecCover == InitCover /\ [][NextCover]_vars

----------------------------------------------------------------------------
(* SpecSelect: the target selection of generate_intelligent_reminder on small
   response tables and eligible lists *)

MaxAnswered == 3

\* responses of user 1 inside the lookback window (now is 24:00): fourteen
\* hours ago and an hour ago, in catalog categories and in one outside it
SelectRows ==
    {Response(1, category, timestamp, FALSE) :
        category \in {"sleep", "nutrition", "mental_state", "hobby"},
        timestamp \in {10 * 60, 23 * 60}}

SelectTables == UNION {[1..n -> SelectRows] : n \in 0..MaxAnswered}

\* eligible lists as the eligibility loop leaves them: in catalog order, the
\* fallback list when nothing is eligible
EligibleSamples ==
    {EligibleFallback(SelectSeq(all_categories, LAMBDA c : c \in S)) :
        S \in SUBSET {"sleep", "nutrition", "mental_state", "environment"}
              \cup {Range(all_categories)}}

InitSelect ==
    /\ InitCommon
    /\ reminders = <<>>
    /\ users = <<PDefault>>
    /\ responses \in SelectTables
    /\ now = 24 * 60
    /\ autoflush = TRUE
    /\ run = [p \in Procs |-> IdleRun]

\* the analysis and the target selection of generate_intelligent_reminder
CallTargets(user_id, eligible_categories) ==
    /\ fn.op = "none"
    /\ LET analysis == analyze_category_coverage(user_id, responses, now, LookbackHours)
       IN  fn' = [op |-> "target_categories",
                  analysis |-> analysis,
                  eligible_categories |-> eligible_categories,
                  result |-> TargetCategories(analysis, eligible_categories)]
    /\ UNCHANGED <<users, prompts, reminders, responses, now, autoflush, run, batch, sweep,
                   notifications, history>>

NextSelect == \E eligible_categories \in EligibleSamples : CallTargets(1, eligible_categories)

SpecSelect == InitSelect /\ [][NextSelect]_vars

----------------------------------------------------------------------------
(* SpecGen: generate_questions_for_categories over every outcome of its calls *)

MaxListed == 5

\* target lists of one, two and three categories
TargetSamples ==
    {<<"mental_state">>, <<"sleep", "nutrition">>,
     <<"substances", "environment", "sleep">>}

\* an exception; lists of 0 to MaxListed questions; None; a string
OutcomeSamples ==
    {Raised, NotAList(0), NotAList(3)} \cup {Listed(n) : n \in 0..MaxListed}

InitGen ==
    /\ InitCommon
    /\ reminders = <<>>
    /\ users = <<PDefault>>
    /\ responses = <<>>
    /\ now = 24 * 60
    /\ autoflush = TRUE
    /\ run = [p \in Procs |-> IdleRun]

CallGenerate(categories, outcomes) ==
    /\ fn.op = "none"
    /\ fn' = [op |-> "generate_questions_for_categories",
              categories |-> categories,
              outcomes |-> outcomes,
              result |-> generate_questions_for_categories(categories, outcomes)]
    /\ UNCHANGED <<users, prompts, reminders, responses, now, autoflush, run, batch, sweep,
                   notifications, history>>

NextGen ==
    \E categories \in TargetSamples :
        \E outcomes \in [DOMAIN categories -> OutcomeSamples] :
            CallGenerate(categories, outcomes)

SpecGen == InitGen /\ [][NextGen]_vars

----------------------------------------------------------------------------
(* SpecAgree: the task for one user, then POST /reminders/generate for a user
   with the same profile and the same reminders, at the same 'now' *)

\* the window ends at the minute it starts
PEqual == Profile("UTC", HMS(8, 0, 0), NoTime, HMS(8, 0, 0))

\* no reminders, or for each of the two users one posted reminder at 11:15 UTC
\* of day 1
TwinTables ==
    {<<>>,
     <<NewReminder(1, 24 * 60 + 675, <<Question("custom", 1)>>, <<"sleep">>, 0),
       NewReminder(2, 24 * 60 + 675, <<Question("custom", 1)>>, <<"sleep">>, 0)>>}

InitAgree ==
    /\ InitCommon
    /\ reminders \in TwinTables
    /\ users \in {<<P, P>> : P \in {PDefault, PLate, PWest, PEqual}}
    /\ responses = <<>>
    /\ now \in NowSamples
    /\ autoflush \in BOOLEAN
    /\ run = [p \in Procs |-> IdleRun]

NextAgree ==
    \/ \E outcomes \in FewOutcomeSeqs :
            history = <<>> /\ RunStart(1, "task", 1, outcomes)
    \/ \E outcomes \in FewOutcomeSeqs :
            /\ Len(history) = 1
            /\ run[1].pc \in {"done", "raised"}
            /\ RunStart(2, "api", 2, outcomes)
    \/ \E p \in Procs : RunCheck(p)
    \/ \E p \in Procs : RunInsert(p)

SpecAgree == InitAgree /\ [][NextAgree]_vars

----------------------------------------------------------------------------
(* Claims *)

\* C1 (scheduler idempotence): when a scheduling cycle for a user has completed
\* and the same entry point is run again for that user at the same 'now' with
\* nothing else happening in between, the second run persists no reminder.
C1_SecondRunSchedulesNothing ==
    \A p \in DOMAIN run :
        (/\ run[p].pc = "done"
         /\ run[p].result = "success"
         /\ run[p].serial >= 2
         /\ history[run[p].serial - 1].user_id = run[p].user_id
         /\ history[run[p].serial - 1].kind = run[p].kind
         /\ history[run[p].serial - 1].now_utc = run[p].now_utc)
        => run[p].scheduled = 0

\* C2 (uniqueness of (user_id, scheduled_time)): no two persisted reminders of
\* the same user have the same scheduled_time, also when scheduling runs overlap.
C2_UniqueUserScheduledTime ==
    \A i, j \in DOMAIN reminders :
        (i # j /\ reminders[i].user_id = reminders[j].user_id)
        => reminders[i].scheduled_time # reminders[j].scheduled_time

StatusRank(status) ==
    CASE status = "scheduled" -> 0
      [] status = "sent" -> 1
      [] status \in {"acknowledged", "missed"} -> 2
      [] status = "completed" -> 3

\* SCHEDULED < SENT < {ACKNOWLEDGED, MISSED} < COMPLETED, as a partial order
StatusLeq(a, b) == a = b \/ StatusRank(a) < StatusRank(b)

\* C3 (monotonic lifecycle): every step of a sweep, an acknowledge call or a PATCH
\* leaves each reminder with a status greater than or equal to the status it had.
C3_MonotonicLifecycle ==
    [][\A i \in DOMAIN reminders :
            StatusLeq(reminders[i].status, reminders'[i].status)]_vars

\* C4 (terminal states): a reminder whose status is COMPLETED or MISSED keeps
\* that status in every step.
C4_TerminalStates ==
    [][\A i \in DOMAIN reminders :
            reminders[i].status \in {"completed", "missed"}
            => reminders'[i].status = reminders[i].status]_vars

\* C5 (no empty reminders from the scheduler): every reminder persisted by a
\* scheduling run has at least one question and at least one category.
C5_ScheduledReminderNotEmpty ==
    \A i \in DOMAIN reminders :
        reminders[i].origin > 0
        => Len(reminders[i].questions) >= 1 /\ Len(reminders[i].categories) >= 1

\* a run whose single question left its other slot without questions has
\* returned, having persisted one reminder
C5_Witness ==
    \E p \in DOMAIN run :
        /\ run[p].pc = "done"
        /\ run[p].result = "success"
        /\ history[run[p].serial].total_questions = 1
        /\ \E i \in DOMAIN reminders : reminders[i].origin = run[p].serial

\* t lies in [wake, end), or in [wake, 24:00) union [00:00, end) when end is the
\* earlier of the two
InWindow(t, wake_time, end_time) ==
    IF wake_time < end_time THEN wake_time <= t /\ t < end_time
    ELSE IF end_time < wake_time THEN t >= wake_time \/ t < end_time
    ELSE TRUE

\* C6 (window containment): every time _calculate_reminder_times returns for 1 to
\* 4 slots is a valid time of day inside the window from the wake time to the
\* end time, wrapped over midnight when the end time is the earlier one.
C6_WindowContainment ==
    fn.op = "calculate_reminder_times"
    => \A i \in DOMAIN fn.result :
            /\ 0 <= fn.result[i] /\ fn.result[i] < HMS(24, 0, 0)
            /\ InWindow(fn.result[i], fn.wake_time, fn.end_time)

\* the latest scheduled_time among the rows ids of the reminders table
LatestScheduled(ids) ==
    CHOOSE t \in {reminders[j].scheduled_time : j \in ids} :
        \A j \in ids : reminders[j].scheduled_time <= t

\* the user's reminders among ids that tag category c
Asking(ids, user_id, c) ==
    {j \in ids : reminders[j].user_id = user_id /\ c \in Range(reminders[j].categories)}

\* the reminders committed before reminder i was: every row with a smaller id,
\* except the rows POST /reminders/generate commits together with it
CommittedBefore(i) ==
    {j \in 1..(i - 1) :
        ~(reminders[j].origin = reminders[i].origin
          /\ reminders[i].origin > 0
          /\ history[reminders[i].origin].kind = "api")}

\* C7 (eligibility respected at the moment of persisting): unless the
\* run fell back to the most askable category, every category of a reminder a
\* run persists is in no reminder of the user committed before it, or the most
\* recent such reminder is at least the category's minimum interval before the
\* run's 'now'.
C7_EligibleWhenPersisted ==
    \A i \in DOMAIN reminders :
        (reminders[i].origin > 0 /\ ~history[reminders[i].origin].fallback)
        => \A c \in Range(reminders[i].categories) :
                LET asked == Asking(CommittedBefore(i), reminders[i].user_id, c)
                IN  \/ asked = {}
                    \/ history[reminders[i].origin].now_utc - LatestScheduled(asked)
                            >= MinHours(c) * 60

\* the user's reminders among ids that are among the user's 100 latest of ids
LatestHundred(ids, user_id) ==
    LET mine == {j \in ids : reminders[j].user_id = user_id}
    IN  {j \in mine :
            Cardinality({k \in mine :
                reminders[k].scheduled_time > reminders[j].scheduled_time})
                < 100}

\* What a run does guarantee about the categories it tags (weaker than C7):
\* unless the run fell back to the most askable category, every category of a
\* reminder it persists is in none of the user's 100 latest reminders that were
\* committed when the run started, or the most recent of those is at least the
\* category's minimum interval before the run's 'now'.
C7_EligibleWhenRunStarted ==
    \A i \in DOMAIN reminders :
        (reminders[i].origin > 0 /\ ~history[reminders[i].origin].fallback)
        => \A c \in Range(reminders[i].categories) :
                LET before == 1..(history[reminders[i].origin].first_id - 1)
                    asked == Asking(LatestHundred(before, reminders[i].user_id),
                                    reminders[i].user_id, c)
                IN  \/ asked = {}
                    \/ history[reminders[i].origin].now_utc - LatestScheduled(asked)
                            >= MinHours(c) * 60

\* C8 (frequency limit as minimum spacing): any two reminders of a user that
\* scheduling runs persisted and that both tag category c are scheduled at least category_frequency_limits[c]
\* hours apart.
C8_MinimumSpacing ==
    \A i, j \in DOMAIN reminders :
        (/\ i < j
         /\ reminders[i].origin > 0
         /\ reminders[j].origin > 0
         /\ reminders[i].user_id = reminders[j].user_id)
        => \A c \in Range(reminders[i].categories) \cap Range(reminders[j].categories) :
                \/ reminders[j].scheduled_time - reminders[i].scheduled_time
                        >= MinHours(c) * 60
                \/ reminders[i].scheduled_time - reminders[j].scheduled_time
                        >= MinHours(c) * 60

\* C9 (eligibility filter result): the eligible categories are the catalog's
\* categories never asked or asked at least their minimum interval before 'now',
\* or mental_state alone, the category with the smallest minimum interval, when
\* there is none; the result is never empty; a category's last-asked time is the
\* greatest scheduled_time among the user's 100 most recent reminders that tag it.
C9_EligibilityFilterResult ==
    fn.op = "eligible"
    => LET mine == LatestHundred(DOMAIN reminders, fn.user_id)
           expected ==
               {c \in Range(all_categories) :
                   LET asked == Asking(mine, fn.user_id, c)
                   IN  \/ asked = {}
                       \/ now - LatestScheduled(asked) >= MinHours(c) * 60}
       IN  /\ fn.result # <<>>
           /\ Range(fn.result) = IF expected # {} THEN expected ELSE {"mental_state"}
           /\ \A c \in Range(all_categories) : MinHours("mental_state") <= MinHours(c)
           /\ \A c \in DOMAIN fn.last_asked :
                    /\ Asking(mine, fn.user_id, c) # {}
                    /\ fn.last_asked[c] = LatestScheduled(Asking(mine, fn.user_id, c))
           /\ \A c \in Range(all_categories) :
                    Asking(mine, fn.user_id, c) # {} => c \in DOMAIN fn.last_asked

\* the filter was applied when every category had been asked too recently, and
\* it returned mental_state alone
C9_Witness ==
    /\ fn.op = "eligible"
    /\ fn.unfiltered = <<>>
    /\ fn.result = <<"mental_state">>
    /\ \A c \in Range(all_categories) : c \in DOMAIN fn.last_asked

\* C10 (per-user failure isolation): the batch driver ends by completing, having
\* run the scheduling cycle of every user whose cycle does not raise.
C10_BatchSurvivesFailingUser ==
    batch.pc \in {"done", "raised"}
    => /\ batch.pc = "done"
       /\ \A u \in DOMAIN users :
            ~TimezoneRaises(users[u]) => u \in batch.visited

\* C11 (timezone failure falls back to UTC): a scheduling run for a user whose
\* timezone name is not known does not raise; it ends with a success result.
C11_UnknownTimezoneSucceeds ==
    \A p \in DOMAIN run :
        (/\ run[p].pc \in {"done", "raised"}
         /\ run[p].user_id \in DOMAIN users
         /\ TimezoneRaises(users[run[p].user_id]))
        => run[p].pc = "done" /\ run[p].result = "success"

\* C12 (not found leaves the state unchanged): a step of a scheduling run for a
\* user id that is not in the users table ends the run with the not-found
\* outcome and leaves the reminders table as it was.
C12_NotFoundChangesNothing ==
    [][\A p \in DOMAIN run :
            (run'[p] # run[p] /\ run'[p].user_id \notin DOMAIN users)
            => /\ reminders' = reminders
               /\ run'[p].pc = "done"
               /\ run'[p].result = "not_found"
               /\ run'[p].scheduled = 0]_vars

\* a run for an unknown user has returned while the reminders table holds the
\* reminders of an earlier run
C12_Witness ==
    \E p \in DOMAIN run :
        /\ run[p].pc = "done"
        /\ run[p].result = "not_found"
        /\ run[p].user_id \notin DOMAIN users
        /\ reminders # <<>>

\* the minute of the day of a time value
MinuteOfDay(t) == t \div 60

\* minutes from the wake minute forward to the end minute, around the clock
WindowMinutes(wake_time, end_time) ==
    (MinuteOfDay(end_time) - MinuteOfDay(wake_time)) % (24 * 60)

\* C13 (even spacing): _calculate_reminder_times returns exactly n times; slot i
\* is at minute (wake_minutes + i * floor(window_minutes / (n + 1))) mod 1440, so
\* consecutive slots are equally far apart around the clock; for 08:00 to 20:00,
\* three slots are 11:00, 14:00, 17:00 and one slot is 14:00.
C13_EvenSpacing ==
    fn.op = "calculate_reminder_times"
    => LET n == fn.num_reminders
           step == WindowMinutes(fn.wake_time, fn.end_time) \div (n + 1)
       IN  /\ Len(fn.result) = n
           /\ \A i \in 1..n :
                fn.result[i] = 60 * ((MinuteOfDay(fn.wake_time) + i * step) % (24 * 60))
           /\ \A i \in 1..(n - 1) :
                (fn.result[i + 1] - fn.result[i]) % HMS(24, 0, 0) = 60 * step
           /\ (fn.wake_time = HMS(8, 0, 0) /\ fn.end_time = HMS(20, 0, 0) /\ n = 3)
                => fn.result = <<HMS(11, 0, 0), HMS(14, 0, 0), HMS(17, 0, 0)>>
           /\ (fn.wake_time = HMS(8, 0, 0) /\ fn.end_time = HMS(20, 0, 0) /\ n = 1)
                => fn.result = <<HMS(14, 0, 0)>>

\* the function was applied to a window that spans midnight, and returned slots
\* on both sides of it
C13_Witness ==
    /\ fn.op = "calculate_reminder_times"
    /\ fn.end_time < fn.wake_time
    /\ \E i \in 1..(Len(fn.result) - 1) :
            /\ fn.result[i + 1] < fn.result[i]
            /\ fn.result[i + 1] # fn.result[1]

\* the user's responses that count for the coverage: not deleted, inside the
\* lookback window
Counting(user_id) ==
    {i \in DOMAIN responses :
        /\ responses[i].user_id = user_id
        /\ ~responses[i].deleted
        /\ responses[i].timestamp >= now - LookbackHours * 60}

CountingFor(user_id, c) == {i \in Counting(user_id) : responses[i].category = c}

\* C14 (coverage classification): gap_categories is the catalog, in catalog
\* order, without the categories that have a non-deleted response of the user
\* inside the lookback window; every catalog category is in exactly one of
\* gap_categories and covered_categories; with no response at all the gaps are
\* the whole catalog, nothing is covered and total_responses is 0.
C14_CoverageClassification ==
    fn.op = "analyze_category_coverage"
    => LET r == fn.result
       IN  /\ r.gap_categories =
                SelectSeq(all_categories, LAMBDA c : CountingFor(fn.user_id, c) = {})
           /\ \A c \in Range(all_categories) :
                (c \in Range(r.gap_categories)) # (c \in Range(r.covered_categories))
           /\ r.total_responses = Cardinality(Counting(fn.user_id))
           /\ responses = <<>>
                => /\ r.gap_categories = all_categories
                   /\ r.covered_categories = <<>>
                   /\ r.total_responses = 0

\* the analysis of a history in which one catalog category has a response that
\* counts and another has only a deleted or too old one, and is a gap
C14_Witness ==
    /\ fn.op = "analyze_category_coverage"
    /\ fn.result.covered_categories # <<>>
    /\ \E i \in DOMAIN responses :
            /\ responses[i].user_id = fn.user_id
            /\ responses[i].deleted \/ responses[i].timestamp < now - LookbackHours * 60
            /\ responses[i].category \in Range(fn.result.gap_categories)

\* C15 (acknowledge): acknowledging an existing reminder that is SCHEDULED or SENT
\* sets its status to ACKNOWLEDGED and changes nothing else of this or any other
\* reminder, creates no reminder and queues nothing; for an id that does not
\* exist it changes no reminder.
C15_AcknowledgeFrame ==
    [][\A id \in ReminderIds :
            acknowledge_reminder(id)
            => IF id \in DOMAIN reminders
               THEN reminders[id].status \in {"scheduled", "sent"}
                    => /\ DOMAIN reminders' = DOMAIN reminders
                       /\ reminders'[id].status = "acknowledged"
                       /\ reminders'[id].scheduled_time = reminders[id].scheduled_time
                       /\ reminders'[id].sent_time = reminders[id].sent_time
                       /\ reminders'[id].questions = reminders[id].questions
                       /\ reminders'[id].categories = reminders[id].categories
                       /\ reminders'[id].user_id = reminders[id].user_id
                       /\ \A j \in DOMAIN reminders \ {id} : reminders'[j] = reminders[j]
                       /\ notifications' = notifications
               ELSE reminders' = reminders]_vars

\* a reminder has been acknowledged while another reminder of the table has not
C15_Witness ==
    \E i, j \in DOMAIN reminders :
        /\ reminders[i].status = "acknowledged"
        /\ reminders[j].status \in {"scheduled", "sent"}

\* C16: every reminder against which at least one response has been recorded
\* through POST /responses is in status COMPLETED, whatever its status was
\* when the response was submitted.
C16_AnsweredIsCompleted ==
    \A i \in DOMAIN reminders :
        (\E k \in DOMAIN responses : responses[k].prompt_id = i)
        => reminders[i].status = "completed"

\* C17: once a reminder is in the table, no step (sweep, acknowledge, PATCH,
\* a scheduling run, POST of another reminder) removes it or changes its
\* user_id, scheduled_time, questions or categories.
C17_WriteOnceFields ==
    [][\A i \in DOMAIN reminders :
            /\ i \in DOMAIN reminders'
            /\ reminders'[i].user_id = reminders[i].user_id
            /\ reminders'[i].scheduled_time = reminders[i].scheduled_time
            /\ reminders'[i].questions = reminders[i].questions
            /\ reminders'[i].categories = reminders[i].categories]_vars

\* a posted reminder was dispatched, re-stamped by PATCH and acknowledged, and a
\* scheduling run has added a reminder after it
C17_Witness ==
    \E i, j \in DOMAIN reminders :
        /\ i < j
        /\ reminders[i].origin = 0
        /\ reminders[i].status = "acknowledged"
        /\ reminders[i].sent_time # NoTime
        /\ i \in Range(notifications)
        /\ reminders[j].origin > 0

\* C18: every persisted reminder, whether a scheduling run or POST /reminders
\* created it, has a non-empty questions mapping, and its categories are
\* non-empty exactly when its questions are.
C18_QuestionsCategoriesCoupled ==
    \A i \in DOMAIN reminders :
        /\ reminders[i].questions # <<>>
        /\ (reminders[i].categories # <<>>) <=> (reminders[i].questions # <<>>)

C20_OneDispatchPerReminder ==
    /\ \A k, l \in DOMAIN notifications :
            k # l => notifications[k] # notifications[l]
    /\ \A k \in DOMAIN notifications :
            /\ notifications[k] \in DOMAIN reminders
            /\ reminders[notifications[k]].status = "sent"

\* the scheduling run with serial number s has ended
RunEnded(s) ==
    /\ s \in DOMAIN history
    /\ \A p \in DOMAIN run : run[p].serial = s => run[p].pc \in {"done", "raised"}

\* the reminders persisted by run s
PersistedBy(s) == {i \in DOMAIN reminders : reminders[i].origin = s}

\* the positions, in the flattened question list, of the questions of reminder i
Positions(i) == {reminders[i].questions[j].key : j \in DOMAIN reminders[i].questions}

\* C21 (question distribution loses nothing): when a scheduling run that
\* persisted at least one reminder has ended, every generated question is in
\* exactly one of the reminders it persisted, and each of these reminders holds
\* a contiguous slice of the flattened question list in its order, also when
\* slots were skipped as past or as already taken.
C21_DistributionLosesNothing ==
    \A s \in DOMAIN history :
        (RunEnded(s) /\ PersistedBy(s) # {})
        => /\ \A q \in 1..history[s].total_questions :
                Cardinality({i \in PersistedBy(s) : q \in Positions(i)}) = 1
           /\ \A i \in PersistedBy(s) :
                \A j \in 1..(Len(reminders[i].questions) - 1) :
                    reminders[i].questions[j + 1].key = reminders[i].questions[j].key + 1

\* C22 (per-reminder key renumbering): a reminder persisted by a scheduling run
\* with k questions has the keys q1, q2, ..., qk, in this order.
C22_KeysRestartAtOne ==
    \A i \in DOMAIN reminders :
        reminders[i].origin > 0
        => \A j \in DOMAIN reminders[i].questions : reminders[i].questions[j].key = j

\* C23 (window wrap at equality): when the screens-off minute of the day is not
\* later than the wake minute, the slots of _calculate_reminder_times are spaced
\* over a window of screens_off + 1440 - wake minutes; in particular they are
\* pairwise distinct when the two times are equal.
C23_WrapAtEquality ==
    (fn.op = "calculate_reminder_times"
     /\ MinuteOfDay(fn.end_time) <= MinuteOfDay(fn.wake_time))
    => LET n == fn.num_reminders
           window == MinuteOfDay(fn.end_time) + 1440 - MinuteOfDay(fn.wake_time)
           step == window \div (n + 1)
       IN  /\ \A i \in 1..n :
                fn.result[i] = 60 * ((MinuteOfDay(fn.wake_time) + i * step) % 1440)
           /\ MinuteOfDay(fn.end_time) = MinuteOfDay(fn.wake_time)
              => \A i, j \in 1..n : i # j => fn.result[i] # fn.result[j]

\* the eligible gap categories of a selection, in catalog order
EligibleGaps ==
    SelectSeq(all_categories,
              LAMBDA c : /\ c \in Range(fn.analysis.gap_categories)
                         /\ c \in Range(fn.eligible_categories))

\* the eligible covered categories of a selection
EligibleCovered ==
    Range(fn.analysis.covered_categories) \cap Range(fn.eligible_categories)

\* C24 (Question Selector output): the target list has between 1 and 3
\* distinct categories, all eligible; it starts with the eligible gap
\* categories in catalog order, at most 3; covered categories follow only when
\* there are fewer than 3 eligible gaps, stalest last response first, until the
\* list has 3 entries or the eligible covered categories are used up.
C24_SelectorOutput ==
    fn.op = "target_categories"
    => LET targets == fn.result
           last == fn.analysis.last_response_by_category
           g == IF Len(EligibleGaps) < 3 THEN Len(EligibleGaps) ELSE 3
       IN  /\ 1 <= Len(targets) /\ Len(targets) <= 3
           /\ \A i, j \in DOMAIN targets : i # j => targets[i] # targets[j]
           /\ \A i \in DOMAIN targets : targets[i] \in Range(fn.eligible_categories)
           /\ Len(targets) >= g
           /\ \A i \in 1..g : targets[i] = EligibleGaps[i]
           /\ Len(targets) = (IF g + Cardinality(EligibleCovered) < 3
                              THEN g + Cardinality(EligibleCovered) ELSE 3)
           /\ \A i \in (g + 1)..Len(targets) :
                /\ targets[i] \in EligibleCovered
                /\ \A j \in (i + 1)..Len(targets) : last[targets[i]] <= last[targets[j]]
                /\ \A c \in EligibleCovered \ Range(targets) : last[targets[i]] <= last[c]

\* one eligible gap is followed by two covered categories with different
\* last-response times, and a third eligible covered category is left out
C24_Witness ==
    /\ fn.op = "target_categories"
    /\ Len(EligibleGaps) = 1
    /\ Len(fn.result) = 3
    /\ fn.result[1] = EligibleGaps[1]
    /\ fn.analysis.last_response_by_category[fn.result[2]]
            < fn.analysis.last_response_by_category[fn.result[3]]
    /\ EligibleCovered \ Range(fn.result) # {}

\* a generation call failed: it raised, or returned nothing or no list
Failed(outcome) == outcome.raises \/ outcome.len = 0 \/ ~outcome.is_list

\* C25 (Question Generator absorbs failure): whatever each generation call
\* does, generate_questions_for_categories returns one entry per target
\* category with 1 to 4 questions; the entry of a category whose call failed is
\* the single canned question of that category, and the entry of any other
\* category is the first 4 at most of the questions returned for it, whatever
\* happened to the calls for the other categories.
C25_GeneratorAbsorbsFailure ==
    fn.op = "generate_questions_for_categories"
    => /\ DOMAIN fn.result = Range(fn.categories)
       /\ \A k \in DOMAIN fn.categories :
            LET c == fn.categories[k]
                n == fn.outcomes[k].len
            IN  /\ 1 <= Len(fn.result[c]) /\ Len(fn.result[c]) <= 4
                /\ Failed(fn.outcomes[k]) => fn.result[c] = <<<<c, 0>>>>
                /\ ~Failed(fn.outcomes[k])
                   => /\ Len(fn.result[c]) = (IF n < 4 THEN n ELSE 4)
                      /\ \A j \in DOMAIN fn.result[c] : fn.result[c][j] = <<c, j>>

\* one call raised, one returned more than four questions, one returned a string
C25_Witness ==
    /\ fn.op = "generate_questions_for_categories"
    /\ \E k, l, m \in DOMAIN fn.categories :
            /\ fn.outcomes[k].raises
            /\ fn.outcomes[l].is_list /\ fn.outcomes[l].len > 4
            /\ ~fn.outcomes[m].raises /\ ~fn.outcomes[m].is_list /\ fn.outcomes[m].len > 0
            /\ Len(fn.result[fn.categories[l]]) = 4

\* C26 (only future slots are persisted): every reminder created by a
\* scheduling run is scheduled strictly later than the 'now' that run read, so
\* a slot at or before that instant never produces a reminder.
C26_OnlyFutureSlots ==
    \A i \in DOMAIN reminders :
        reminders[i].origin > 0
        => reminders[i].scheduled_time > history[reminders[i].origin].now_utc

\* a run that started after some of its slots had passed has persisted a
\* reminder for fewer slots than it computed
C26_Witness ==
    \E p \in DOMAIN run :
        /\ run[p].pc = "done"
        /\ run[p].result = "success"
        /\ run[p].scheduled >= 1
        /\ run[p].scheduled < NumReminders(history[run[p].serial].total_questions)
        /\ run[p].serial = 1
        /\ \E i \in DOMAIN reminders : reminders[i].origin = 1

\* C27 (acknowledgment survives a concurrent sweep): in no interleaving of
\* acknowledge and sweep does a reminder go from ACKNOWLEDGED to SENT; a
\* reminder acknowledged between a sweep's query and its write stays
\* ACKNOWLEDGED.
C27_AcknowledgedNotSentAgain ==
    [][\A i \in DOMAIN reminders :
            reminders[i].status = "acknowledged"
            => reminders'[i].status # "sent"]_vars

\* C28 (send time is recorded on promotion): a reminder that the sweep has
\* promoted to SENT has a sent_time: the column is not null once the
\* notification for it is queued.
C28_SentTimeRecorded ==
    \A k \in DOMAIN notifications :
        reminders[notifications[k]].sent_time # NoTime

\* C29 (every due reminder is eventually sent): with the periodic sweep weakly
\* fair, a reminder that is SCHEDULED with scheduled_time <= now eventually
\* leaves SCHEDULED, also when more than 50 reminders are due at once.
C29_DueEventuallyLeavesScheduled ==
    \A i \in 1..(Backlog + 3) :
        (/\ i \in DOMAIN reminders
         /\ reminders[i].status = "scheduled"
         /\ reminders[i].scheduled_time <= now)
        ~> (i \in DOMAIN reminders /\ reminders[i].status # "scheduled")

\* more than 50 reminders were due at once and all of them have been sent: a
\* second run took what the first one left
C29_Witness ==
    /\ Cardinality({i \in DOMAIN reminders : reminders[i].status = "sent"}) > 50
    /\ Len(notifications) > 50
    /\ sweep[1].pc = "done"
    /\ ~\E i \in DOMAIN reminders :
            reminders[i].status = "scheduled" /\ reminders[i].scheduled_time <= now

\* what run s persisted: the scheduled times with the question texts at each
Persisted(s) ==
    {<<reminders[i].scheduled_time,
       [j \in DOMAIN reminders[i].questions |-> reminders[i].questions[j].text]>> :
        i \in PersistedBy(s)}

\* the reminders user u had before any run
PostedFor(u) ==
    {<<reminders[i].scheduled_time, reminders[i].questions, reminders[i].categories>> :
        i \in {k \in DOMAIN reminders :
                    reminders[k].origin = 0 /\ reminders[k].user_id = u}}

\* C30 (the two scheduling entry points agree): a run of the task and a run of
\* POST /reminders/generate for users with the same profile, at the same
\* 'now', with the same existing reminders and the same generated questions,
\* persist the same scheduled times with the same questions at each.
C30_EntryPointsAgree ==
    \A s, t \in DOMAIN history :
        (/\ RunEnded(s) /\ RunEnded(t)
         /\ history[s].kind = "task" /\ history[t].kind = "api"
         /\ history[s].user_id \in DOMAIN users /\ history[t].user_id \in DOMAIN users
         /\ history[s].user_id # history[t].user_id
         /\ users[history[s].user_id] = users[history[t].user_id]
         /\ PostedFor(history[s].user_id) = PostedFor(history[t].user_id)
         /\ history[s].now_utc = history[t].now_utc
         /\ history[s].categories = history[t].categories
         /\ history[s].total_questions = history[t].total_questions)
        => Persisted(s) = Persisted(t)

====
